---- MODULE Spec2Model ----
(***************************************************************************)
(* QueryBuddy (src/app.py): a Streamlit script that is re-executed from    *)
(* top to bottom on every user interaction of a browser session.           *)
(*                                                                         *)
(* One action of the model is one user interaction together with the whole *)
(* script run it triggers.  State that outlives a run:                     *)
(*   - st.session_state of each session (chat_ready, messages),            *)
(*   - the values of the sidebar widgets of each session,                  *)
(*   - the buttons the last run of each session rendered (only those can   *)
(*     be pressed next),                                                   *)
(*   - the process-wide st.cache_resource store of configure_db,           *)
(*   - the clock the cache's ttl is measured against.                      *)
(* run[s] records what the last run of session s did (the stage at which   *)
(* it ended, its script-local db and agent, what it reported).             *)
(*                                                                         *)
(* A run is triggered by one interaction (one widget edited, one button    *)
(* pressed or one query submitted) and runs to its end or to st.stop().    *)
(* The cache key of an uploaded file is the file (its name and content),   *)
(* so equal files give equal keys in every run and session.                *)
(***************************************************************************)
EXTENDS Integers, Sequences, FiniteSets, TLC

\* ------------------------------------------------------------------ bounds
MaxTime     == 2      \* the clock runs 0..MaxTime (hours)
MaxMessages == 3      \* a query is accepted while the transcript has room for it

\* ------------------------------------------------------- program constants
TTL == 2              \* @st.cache_resource(ttl="2h"), in hours

LOCALDB  == "USE_LOCALDB"
MYSQL    == "USE_MYSQL"
SUPABASE == "USE_SUPABASE"

\* Python's None (a widget that was not rendered, an argument left at its default)
None == "<None>"

\* the browser sessions the one process serves
Sessions == {1, 2}

\* values the user can put into the widgets
TextValues == {"", "x"}          \* a text_input: empty or filled
Files      == {None, "f.db"}     \* the file_uploader: nothing or one file
Queries    == {"q"}              \* st.chat_input submits non-empty text only
Answers    == {"a"}              \* what agent.run returns

Greeting == [role |-> "assistant", content |-> "How can I help you?"]

VARIABLES
  session_state,   \* [Sessions -> function over a subset of {"chat_ready","messages"}]
  widgets,         \* [Sessions -> the sidebar values as the script reads them]
  page,            \* [Sessions -> the buttons/inputs rendered by the last run]
  run,             \* [Sessions -> what the last run did]
  started_with,    \* [Sessions -> db_uri of the run that set chat_ready, or None]
  cache,           \* entries of configure_db's st.cache_resource store
  now              \* the clock

vars == <<session_state, widgets, page, run, started_with, cache, now>>

\* ------------------------------------------------------------ sidebar, 29-53
\* the widgets of a freshly rendered sidebar for radio option i (0, 1 or 2)
FreshWidgets(i, api_key) ==
  [selected_opt   |-> i,
   uploaded_file  |-> None,
   mysql_host     |-> IF i = 1 THEN "" ELSE None,
   mysql_user     |-> IF i = 1 THEN "" ELSE None,
   mysql_password |-> IF i = 1 THEN "" ELSE None,
   mysql_db       |-> IF i = 1 THEN "" ELSE None,
   supabase_uri   |-> IF i = 2 THEN "" ELSE None,
   api_key        |-> api_key]

\* lines 35-50: the db_uri the script derives from the selected radio option
db_uri(w) ==
  IF w.selected_opt = 1 THEN MYSQL
  ELSE IF w.selected_opt = 2 THEN SUPABASE
  ELSE LOCALDB

\* Python truthiness of a string or None
Truthy(v) == v # None /\ v # ""

Has(ss, k) == k \in DOMAIN ss

Put(ss, k, v) == [x \in DOMAIN ss \cup {k} |-> IF x = k THEN v ELSE ss[x]]


\* --------------------------------------------------------- messages to the user
NoReport == [level |-> "none", text |-> ""]
Report(level, text) == [level |-> level, text |-> text]

\* ------------------------------------------------- readiness, lines 55-67
\* a bug: chat_ready is reset on every run
InitChatReady_EveryRun(ss) == Put(ss, "chat_ready", FALSE)

\* lines 55-56: chat_ready is created, as False, only when the session has none
InitChatReady(ss) ==
  IF Has(ss, "chat_ready") THEN ss ELSE Put(ss, "chat_ready", FALSE)

\* line 58: the Start Chat button is rendered only while chat_ready is false
StartRendered(ss) == ~ss["chat_ready"]

\* a bug: Start Chat does not look at the API key
StartChat_NoKeyCheck(ss, pressed, api_key) ==
  IF ~ss["chat_ready"] /\ pressed
  THEN [ss |-> Put(ss, "chat_ready", TRUE), report |-> NoReport]
  ELSE [ss |-> ss, report |-> NoReport]

\* lines 58-63: the Start Chat button
StartChat(ss, pressed, api_key) ==
  IF ~ss["chat_ready"] /\ pressed
  THEN IF Truthy(api_key)
       THEN [ss |-> Put(ss, "chat_ready", TRUE), report |-> NoReport]
       ELSE [ss |-> ss,
             report |-> Report("warning", "Please enter your Groq API key to proceed.")]
  ELSE [ss |-> ss, report |-> NoReport]

\* a bug: "and" where "or" is meant
GateHalts_Both(api_key, ss) == ~Truthy(api_key) /\ ~ss["chat_ready"]

\* a bug: the gate looks at chat_ready only
GateHalts_ReadyOnly(api_key, ss) == ~ss["chat_ready"]

\* line 66: the run stops here unless there is an API key and the chat is ready
GateHalts(api_key, ss) == ~Truthy(api_key) \/ ~ss["chat_ready"]

\* ------------------------------------------------- configure_db, lines 78-121
\* lines 116-121: the arguments of the call; arguments not passed keep the
\* default None of the signature (lines 79-84)
Args(w) ==
  [db_uri         |-> db_uri(w),
   uploaded_file  |-> IF db_uri(w) \notin {MYSQL, SUPABASE} THEN w.uploaded_file ELSE None,
   mysql_host     |-> IF db_uri(w) = MYSQL THEN w.mysql_host ELSE None,
   mysql_user     |-> IF db_uri(w) = MYSQL THEN w.mysql_user ELSE None,
   mysql_password |-> IF db_uri(w) = MYSQL THEN w.mysql_password ELSE None,
   mysql_db       |-> IF db_uri(w) = MYSQL THEN w.mysql_db ELSE None,
   supabase_uri   |-> IF db_uri(w) = SUPABASE THEN w.supabase_uri ELSE None]

\* a bug: any(...) where all(...) is meant
AllMySQL_Any(a) ==
  Truthy(a.mysql_host) \/ Truthy(a.mysql_user) \/ Truthy(a.mysql_password)
    \/ Truthy(a.mysql_db)

\* line 99: all([mysql_host, mysql_user, mysql_password, mysql_db])
AllMySQL(a) ==
  Truthy(a.mysql_host) /\ Truthy(a.mysql_user) /\ Truthy(a.mysql_password)
    /\ Truthy(a.mysql_db)

\* lines 85-113, the body of configure_db: which check stops the run, whether
\* the connection is opened (create_engine / SQLDatabase), and what is shown.
\* open_ok is the environment: whether opening the connection succeeds.
\* st.stop() raises a control-flow exception that "except Exception" does not
\* catch; a failure of the open is caught at 110 and stops the run at 113.
configure_db(a, open_ok) ==
  LET failed == [ok |-> FALSE, opened |-> TRUE, backend |-> None,
                 report |-> Report("error", "Failed to connect to the database.")]
  IN
  IF a.db_uri = LOCALDB
  THEN IF a.uploaded_file = None
       THEN [ok |-> FALSE, opened |-> FALSE, backend |-> None,
             report |-> Report("warning", "Please upload a SQLite database file.")]
       ELSE IF open_ok
            THEN [ok |-> TRUE, opened |-> TRUE, backend |-> "sqlite", report |-> NoReport]
            ELSE failed
  ELSE IF a.db_uri = MYSQL
  THEN IF ~AllMySQL(a)
       THEN [ok |-> FALSE, opened |-> FALSE, backend |-> None,
             report |-> Report("error", "Please provide all MySQL connection details.")]
       ELSE IF open_ok
            THEN [ok |-> TRUE, opened |-> TRUE, backend |-> "mysql", report |-> NoReport]
            ELSE failed
  ELSE \* SUPABASE
       IF ~Truthy(a.supabase_uri)
       THEN [ok |-> FALSE, opened |-> FALSE, backend |-> None,
             report |-> Report("error", "Please provide the full Supabase PostgreSQL URI.")]
       ELSE IF open_ok
            THEN [ok |-> TRUE, opened |-> TRUE, backend |-> "postgres", report |-> NoReport]
            ELSE failed

\* a bug: the result is not cached (every read misses)
Lookup_NoCache(c, key, t) == {e \in c : e.key = key /\ t < e.expires - TTL}

\* a bug: the cache is not keyed by the arguments
Lookup_AnyKey(c, key, t) == {e \in c : t < e.expires}

\* a bug: no ttl, an entry is served for ever
Lookup_NeverExpires(c, key, t) == {e \in c : e.key = key}

\* line 78, st.cache_resource(ttl="2h"): one store for the whole process, keyed
\* by the arguments of the call; an entry is served until its time is up
Lookup(c, key, t) == {e \in c : e.key = key /\ t < e.expires}

\* a bug: a write adds an entry and never replaces or drops one
Store_Appends(c, key, value, t) ==
  c \cup {[key |-> key, value |-> value, expires |-> t + TTL]}

\* a result is written under its key for TTL from now; writing drops what expired
Store(c, key, value, t) ==
  {e \in c : e.key # key /\ t < e.expires}
    \cup {[key |-> key, value |-> value, expires |-> t + TTL]}

\* the SQLDatabase object a successful body returns (lines 96, 102, 108).  An
\* object is told from every other by the call that created it: its arguments,
\* the time of the call and the session whose run made it.
SQLDatabase(backend, a, t, s) ==
  [backend |-> backend, args |-> a, created |-> t, session |-> s]

\* a bug: one handle is kept and served whatever the arguments are
cached_configure_db_IgnoresArgs(c, a, t, s, open_ok) ==
  LET hit == {e \in c : t < e.expires} IN
  IF hit # {}
  THEN [ok |-> TRUE, opened |-> FALSE, report |-> NoReport,
        db |-> {(CHOOSE e \in hit : TRUE).value}, cache |-> c]
  ELSE LET r == configure_db(a, open_ok)
           h == SQLDatabase(r.backend, a, t, s)
       IN IF r.ok
          THEN [ok |-> TRUE, opened |-> TRUE, report |-> NoReport,
                db |-> {h}, cache |-> Store(c, a, h, t)]
          ELSE [ok |-> FALSE, opened |-> r.opened, report |-> r.report,
                db |-> {}, cache |-> c]

\* a bug: a failed open returns (None) instead of stopping, and the result is
\* stored like any other
cached_configure_db_MemoizesFailure(c, a, t, s, open_ok) ==
  LET hit == Lookup(c, a, t) IN
  IF hit # {}
  THEN [ok |-> TRUE, opened |-> FALSE, report |-> NoReport,
        db |-> {e.value : e \in hit}, cache |-> c]
  ELSE LET r == configure_db(a, open_ok)
           h == SQLDatabase(r.backend, a, t, s)
       IN IF r.ok
          THEN [ok |-> TRUE, opened |-> TRUE, report |-> NoReport,
                db |-> {h}, cache |-> Store(c, a, h, t)]
          ELSE [ok |-> FALSE, opened |-> r.opened, report |-> r.report,
                db |-> {}, cache |-> IF r.opened THEN Store(c, a, h, t) ELSE c]

\* the decorated configure_db as the script calls it: a hit returns the stored
\* object without running the body; a miss runs the body and stores its result
\* only when it returns (a stopped run stores nothing)
cached_configure_db(c, a, t, s, open_ok) ==
  LET hit == Lookup(c, a, t) IN
  IF hit # {}
  THEN [ok |-> TRUE, opened |-> FALSE, report |-> NoReport,
        db |-> {e.value : e \in hit}, cache |-> c]
  ELSE LET r == configure_db(a, open_ok)
           h == SQLDatabase(r.backend, a, t, s)
       IN IF r.ok
          THEN [ok |-> TRUE, opened |-> TRUE, report |-> NoReport,
                db |-> {h}, cache |-> Store(c, a, h, t)]
          ELSE [ok |-> FALSE, opened |-> r.opened, report |-> r.report,
                db |-> {}, cache |-> c]

\* ------------------------------------------------- agent setup, lines 69-75, 123-135
\* a bug: the agent of an earlier run is kept and reused
create_sql_agent_Reused(prev, api_key, db) ==
  IF prev # {} THEN prev ELSE {[llm |-> api_key, db |-> db]}

\* lines 124-131: the toolkit and the agent are built from this run's llm
\* (bound to this run's api_key) and this run's db
create_sql_agent(prev, api_key, db) == {[llm |-> api_key, db |-> db]}

\* ------------------------------------------------- chat UI, lines 138-158
\* a bug: the button is evaluated first ("button or not in session_state")
ClearRendered_Always(ss) == TRUE

\* line 138: "or" evaluates (and so renders) the Clear button only when the
\* session already has messages
ClearRendered(ss) == Has(ss, "messages")

\* a bug: the pressed Clear button is ignored
InitOrClear_InitOnly(ss, clear_pressed) ==
  IF ~Has(ss, "messages") THEN Put(ss, "messages", <<Greeting>>) ELSE ss

\* lines 138-139
InitOrClear(ss, clear_pressed) ==
  IF ~Has(ss, "messages") \/ (ClearRendered(ss) /\ clear_pressed)
  THEN Put(ss, "messages", <<Greeting>>)
  ELSE ss

UserEntry(q) == [role |-> "user", content |-> q]
AssistantEntry(r) == [role |-> "assistant", content |-> r]

\* a bug: the failure is written to the transcript as an assistant entry
ChatTurn_LogsFailure(ss, user_query, run_ok, answer) ==
  IF user_query = None
  THEN [ss |-> ss, invoked_with |-> <<>>, outcome |-> "none", report |-> NoReport]
  ELSE LET m1 == Append(ss["messages"], UserEntry(user_query)) IN
       IF run_ok
       THEN [ss |-> Put(ss, "messages", Append(m1, AssistantEntry(answer))),
             invoked_with |-> m1, outcome |-> "answered", report |-> NoReport]
       ELSE [ss |-> Put(ss, "messages", Append(m1, AssistantEntry("error"))),
             invoked_with |-> m1, outcome |-> "raised",
             report |-> Report("error", "Something went wrong while processing your query.")]

\* a bug: the user entry is put in front of the transcript
ChatTurn_Prepends(ss, user_query, run_ok, answer) ==
  IF user_query = None
  THEN [ss |-> ss, invoked_with |-> <<>>, outcome |-> "none", report |-> NoReport]
  ELSE LET m1 == <<UserEntry(user_query)>> \o ss["messages"] IN
       IF run_ok
       THEN [ss |-> Put(ss, "messages", Append(m1, AssistantEntry(answer))),
             invoked_with |-> m1, outcome |-> "answered", report |-> NoReport]
       ELSE [ss |-> Put(ss, "messages", m1),
             invoked_with |-> m1, outcome |-> "raised",
             report |-> Report("error", "Something went wrong while processing your query.")]

\* lines 146-158: one chat turn.  run_ok is the environment: whether agent.run
\* returns (with answer) or raises.
ChatTurn(ss, user_query, run_ok, answer) ==
  IF user_query = None
  THEN [ss |-> ss, invoked_with |-> <<>>, outcome |-> "none", report |-> NoReport]
  ELSE LET m1 == Append(ss["messages"], UserEntry(user_query)) IN
       IF run_ok
       THEN [ss |-> Put(ss, "messages", Append(m1, AssistantEntry(answer))),
             invoked_with |-> m1, outcome |-> "answered", report |-> NoReport]
       ELSE [ss |-> Put(ss, "messages", m1),
             invoked_with |-> m1, outcome |-> "raised",
             report |-> Report("error", "Something went wrong while processing your query.")]

\* ------------------------------------------------- one run of the script
\* What the environment decides in a run: whether ChatGroq(...) is built (70-75),
\* whether the connection opens, whether the toolkit and agent are built
\* (124-135), whether agent.run returns, and its answer.
Envs ==
  [llm_ok : BOOLEAN, open_ok : BOOLEAN, agent_ok : BOOLEAN, run_ok : BOOLEAN,
   answer : Answers]

\* agent.run is called only in a run with a query
EnvsFor(user_query) == {e \in Envs : user_query = None => e.run_ok}

\* the record of a run that ended at `stage`
Ran(stage, button, user_query, db, agent, opened, report, turn) ==
  [stage |-> stage, button |-> button, user_query |-> user_query,
   db |-> db, agent |-> agent, opened |-> opened, report |-> report,
   invoked_with |-> turn.invoked_with, outcome |-> turn.outcome]

NoTurn == [invoked_with |-> <<>>, outcome |-> "none"]

NoButton == "none"
StartButton == "Start Chat"
ClearButton == "Clear message history"
ChatInputBox == "chat_input"

\* lines 29-158 for session s: the widgets read w, `button` is the button whose
\* press triggered the run (st.button is True in that run only), user_query the
\* submitted chat input or None.  The result is everything the run leaves behind.
Script(s, w, button, user_query, env) ==
  LET ss0   == InitChatReady(session_state[s])
      start == StartChat(ss0, button = StartButton, w.api_key)
      ss1   == start.ss
      side  == IF StartRendered(ss0) THEN {StartButton} ELSE {}
      began == IF ~ss0["chat_ready"] /\ ss1["chat_ready"]
               THEN db_uri(w) ELSE started_with[s]
  IN
  IF GateHalts(w.api_key, ss1)
  THEN [ss |-> ss1, page |-> side, started_with |-> began,
        cache |-> cache,
        run |-> Ran("gate", button, user_query, {}, {}, FALSE, start.report, NoTurn)]
  ELSE IF ~env.llm_ok
  THEN [ss |-> ss1, page |-> side, started_with |-> began,
        cache |-> cache,
        run |-> Ran("llm", button, user_query, {}, {}, FALSE,
                    Report("error", "Failed to initialize Groq LLM. Check your API key or model name."),
                    NoTurn)]
  ELSE
  LET r == cached_configure_db(cache, Args(w), now, s, env.open_ok) IN
  IF ~r.ok
  THEN [ss |-> ss1, page |-> side, started_with |-> began,
        cache |-> r.cache,
        run |-> Ran("db", button, user_query, {}, {}, r.opened, r.report, NoTurn)]
  ELSE IF ~env.agent_ok
  THEN [ss |-> ss1, page |-> side, started_with |-> began,
        cache |-> r.cache,
        run |-> Ran("agent", button, user_query, r.db, {}, r.opened,
                    Report("error", "Failed to initialize LangChain agent or toolkit."),
                    NoTurn)]
  ELSE
  LET agent == create_sql_agent(run[s].agent, w.api_key, r.db)
      ss2   == InitOrClear(ss1, button = ClearButton)
      turn  == ChatTurn(ss2, user_query, env.run_ok, env.answer)
      chat  == (IF ClearRendered(ss1) THEN {ClearButton} ELSE {}) \cup {ChatInputBox}
  IN [ss |-> turn.ss, page |-> side \cup chat, started_with |-> began,
      cache |-> r.cache,
      run |-> Ran("chat", button, user_query, r.db, agent, r.opened, turn.report,
                  [invoked_with |-> turn.invoked_with, outcome |-> turn.outcome])]

\* the run triggered by an interaction of session s
Rerun(s, w, button, user_query) ==
  \E out \in {Script(s, w, button, user_query, env) : env \in EnvsFor(user_query)} :
      /\ session_state' = [session_state EXCEPT ![s] = out.ss]
      /\ widgets'       = [widgets EXCEPT ![s] = w]
      /\ page'          = [page EXCEPT ![s] = out.page]
      /\ run'           = [run EXCEPT ![s] = out.run]
      /\ started_with'  = [started_with EXCEPT ![s] = out.started_with]
      /\ cache'         = out.cache
      /\ UNCHANGED now

\* ------------------------------------------------- the user's interactions
Loaded(s) == Has(session_state[s], "chat_ready")

NotRun == Ran("none", NoButton, None, {}, {}, FALSE, NoReport, NoTurn)

Init ==
  /\ session_state = [s \in Sessions |-> [k \in {} |-> FALSE]]
  /\ widgets       = [s \in Sessions |-> FreshWidgets(0, "")]
  /\ page          = [s \in Sessions |-> {}]
  /\ run           = [s \in Sessions |-> NotRun]
  /\ started_with  = [s \in Sessions |-> None]
  /\ cache         = {}
  /\ now           = 0

\* a browser opens the app: the first run of a session, widgets at their defaults
Load(s) ==
  /\ ~Loaded(s)
  /\ Rerun(s, widgets[s], NoButton, None)

\* line 30: another radio option; the inputs of the new option are rendered
\* fresh, those of the old one are gone (lines 32-51)
SelectOption(s, i) ==
  /\ Loaded(s)
  /\ i # widgets[s].selected_opt
  /\ Rerun(s, FreshWidgets(i, widgets[s].api_key), NoButton, None)

TextFields == {"mysql_host", "mysql_user", "mysql_password", "mysql_db",
               "supabase_uri", "api_key"}

\* lines 37-40, 44, 53: a text_input of the sidebar is edited
TextInput(s, f, v) ==
  /\ Loaded(s)
  /\ widgets[s][f] # None
  /\ widgets[s][f] # v
  /\ Rerun(s, [widgets[s] EXCEPT ![f] = v], NoButton, None)

\* line 51: a file is uploaded or removed
UploadFile(s, f) ==
  /\ Loaded(s)
  /\ widgets[s].selected_opt = 0
  /\ widgets[s].uploaded_file # f
  /\ Rerun(s, [widgets[s] EXCEPT !.uploaded_file = f], NoButton, None)

\* line 59
PressStart(s) ==
  /\ StartButton \in page[s]
  /\ Rerun(s, widgets[s], StartButton, None)

\* line 138
PressClear(s) ==
  /\ ClearButton \in page[s]
  /\ Rerun(s, widgets[s], ClearButton, None)

\* line 144
ChatInput(s, q) ==
  /\ ChatInputBox \in page[s]
  /\ Len(session_state[s]["messages"]) + 2 <= MaxMessages
  /\ Rerun(s, widgets[s], NoButton, q)

\* time passes
Tick ==
  /\ now < MaxTime
  /\ now' = now + 1
  /\ UNCHANGED <<session_state, widgets, page, run, started_with, cache>>

\* everything the user of session s can do
User(s) ==
  \/ Load(s)
  \/ \E i \in 0..2 : SelectOption(s, i)
  \/ \E f \in TextFields, v \in TextValues : TextInput(s, f, v)
  \/ \E f \in Files : UploadFile(s, f)
  \/ PressStart(s)
  \/ PressClear(s)
  \/ \E q \in Queries : ChatInput(s, q)

\* one session in front of the process, every interaction
Next ==
  \/ User(1)
  \/ Tick

Spec == Init /\ [][Next]_vars

\* every session in front of the one process, each uploading a file, entering
\* the API key and starting the chat
NextShared ==
  \/ \E s \in Sessions : Load(s)
  \/ \E s \in Sessions, v \in TextValues : TextInput(s, "api_key", v)
  \/ \E s \in Sessions, f \in Files : UploadFile(s, f)
  \/ \E s \in Sessions : PressStart(s)
  \/ Tick

SpecShared == Init /\ [][NextShared]_vars

TypeOK ==
  /\ now \in 0..MaxTime
  /\ \A s \in Sessions :
       /\ DOMAIN session_state[s] \subseteq {"chat_ready", "messages"}
       /\ page[s] \subseteq {StartButton, ClearButton, ChatInputBox}
       /\ run[s].stage \in {"none", "gate", "llm", "db", "agent", "chat"}

IsReady(s) == Loaded(s) /\ session_state[s]["chat_ready"]

Messages(s) == session_state[s]["messages"]

\* ------------------------------------------------------------------ claims

\* C1: a run with a submitted query that reaches the chat surface calls the
\* agent with the transcript already extended by the user entry; when the agent
\* answers, the transcript is the old one followed by the user entry and then
\* the assistant entry with the answer; when the agent raises, it is the old
\* one followed by the user entry only, and the session can go on (still
\* ready, chat input rendered).
C1_QueryAppends ==
  [][\A s \in Sessions, q \in Queries :
       (ChatInput(s, q) /\ run'[s].stage = "chat") =>
         LET old == session_state[s]["messages"]
             new == session_state'[s]["messages"]
         IN /\ run'[s].invoked_with = Append(old, UserEntry(q))
            /\ run'[s].outcome \in {"answered", "raised"}
            /\ run'[s].outcome = "answered" =>
                 \E a \in Answers : new = old \o <<UserEntry(q), AssistantEntry(a)>>
            /\ run'[s].outcome = "raised" =>
                 /\ new = old \o <<UserEntry(q)>>
                 /\ session_state'[s]["chat_ready"]
                 /\ ChatInputBox \in page'[s]]_vars

C1_Witness ==
  \E s \in Sessions :
    /\ run[s].stage = "chat" /\ run[s].user_query \in Queries
    /\ run[s].outcome = "answered"
    /\ Len(Messages(s)) = 3

C3_ReadinessMonotone ==
  [][\A s \in Sessions : IsReady(s) => IsReady(s)']_vars

C3_Witness ==
  \E s \in Sessions :
    /\ IsReady(s) /\ widgets[s].api_key = "" /\ run[s].stage = "gate"
    /\ started_with[s] # db_uri(widgets[s])

\* C4: chat_ready turns true only in a run triggered by Start Chat with a
\* non-empty API key, and only in a session where it never turned true before;
\* Start Chat with an empty API key shows the warning and changes neither the
\* session's state nor the cache.
C4_StartGate ==
  [][\A s \in Sessions :
       /\ (~IsReady(s) /\ IsReady(s)') =>
            /\ PressStart(s)
            /\ widgets[s].api_key # ""
            /\ started_with[s] = None
       /\ (PressStart(s) /\ widgets[s].api_key = "") =>
            /\ session_state'[s] = session_state[s]
            /\ ~session_state'[s]["chat_ready"]
            /\ run'[s].report.level = "warning"
            /\ cache' = cache
            /\ widgets' = widgets]_vars

C4_Witness ==
  \E s \in Sessions :
    /\ run[s].button = StartButton /\ IsReady(s)
    /\ run[s].stage = "chat"

\* the required fields of the selected mode are not all supplied
Incomplete(a) ==
  \/ a.db_uri = LOCALDB  /\ a.uploaded_file = None
  \/ a.db_uri = MYSQL    /\ \E f \in {"mysql_host", "mysql_user", "mysql_password", "mysql_db"} :
                               a[f] \in {"", None}
  \/ a.db_uri = SUPABASE /\ a.supabase_uri \in {"", None}

\* the last run of session s called configure_db
CalledConfigure(s) == run[s].stage \in {"db", "agent", "chat"}

\* C5: a run that calls configure_db with incomplete fields shows a message,
\* ends at that call, opens no connection and has no handle, and no cache entry
\* exists for incomplete inputs.  (The message is st.error for MySQL and
\* Supabase and st.warning for the missing SQLite file.)
C5_IncompleteHalts ==
  /\ \A s \in Sessions :
       (CalledConfigure(s) /\ Incomplete(Args(widgets[s]))) =>
         /\ run[s].stage = "db"
         /\ run[s].report.level \in {"error", "warning"}
         /\ run[s].report.text # "Failed to connect to the database."
         /\ ~run[s].opened
         /\ run[s].db = {}
         /\ run[s].agent = {}
  /\ \A e \in cache : ~Incomplete(e.key)

C5_Witness ==
  \E s \in Sessions :
    /\ CalledConfigure(s)
    /\ widgets[s].selected_opt = 1
    /\ widgets[s].mysql_host = "x" /\ widgets[s].mysql_user = "x"
    /\ widgets[s].mysql_password = "" /\ widgets[s].mysql_db = "x"
    /\ cache # {}

\* something of session s changed in the step: the step is a run of s
StepOf(s) ==
  <<session_state[s], widgets[s], page[s], run[s]>>'
    # <<session_state[s], widgets[s], page[s], run[s]>>

\* C6: when a run calls configure_db with the inputs for which some session's
\* last run holds a handle whose cache window (TTL from its creation) is still
\* open, the call returns that same handle and opens no connection.
C6_HitWithinWindow ==
  [][\A s \in Sessions, t \in Sessions :
       (/\ StepOf(s)
        /\ run'[s].stage \in {"db", "agent", "chat"}
        /\ \E h \in run[t].db : h.args = Args(widgets'[s]) /\ now < h.created + TTL)
       => /\ run'[s].stage \in {"agent", "chat"}
          /\ run'[s].db = run[t].db
          /\ ~run'[s].opened]_vars

C6_Witness ==
  \E s \in Sessions :
    /\ run[s].stage = "chat" /\ ~run[s].opened
    /\ \E h \in run[s].db : h.session = s /\ h.created < now /\ now < h.created + TTL

C9_ClearAlwaysEnabled ==
  \A s \in Sessions : Loaded(s) => ClearButton \in page[s]

\* C9 as amended: Clear can be pressed only on a page left by a run that passed
\* the gate (ready, API key present), the LLM, database and agent setup, in a
\* session whose transcript exists.
C9_ClearOnlyOnChatSurface ==
  \A s \in Sessions :
    ClearButton \in page[s] =>
      /\ IsReady(s)
      /\ widgets[s].api_key # ""
      /\ run[s].stage = "chat"
      /\ run[s].db # {}
      /\ Has(session_state[s], "messages")

C9_Witness ==
  \E s \in Sessions :
    /\ ClearButton \in page[s]
    /\ Len(Messages(s)) > 1

\* the mode of each radio option (lines 22-26)
ModeOfOption(i) == IF i = 0 THEN LOCALDB ELSE IF i = 1 THEN MYSQL ELSE SUPABASE
BackendOfMode(m) == IF m = LOCALDB THEN "sqlite" ELSE IF m = MYSQL THEN "mysql" ELSE "postgres"

\* C10 as claimed: after the chat started, a handle is only ever built for the
\* mode that was selected when it started.
C10_ModeFixedAtStart ==
  \A s \in Sessions :
    started_with[s] # None =>
      \A h \in run[s].db : h.args.db_uri = started_with[s]

\* C10 as amended: the handle of a run is for the mode selected in the sidebar
\* in that run, which the user can change after the chat started.
C10_ModeOfTheRun ==
  \A s \in Sessions : \A h \in run[s].db :
    /\ h.args.db_uri = ModeOfOption(widgets[s].selected_opt)
    /\ h.backend = BackendOfMode(ModeOfOption(widgets[s].selected_opt))

C10_Witness ==
  \E s \in Sessions :
    /\ started_with[s] = LOCALDB
    /\ run[s].stage = "chat"
    /\ \E h \in run[s].db : h.args.db_uri = SUPABASE


\* old is new with nothing, one entry or two entries added at its end
ExtendsAtEnd(old, new) ==
  /\ Len(new) - Len(old) \in {0, 1, 2}
  /\ SubSeq(new, 1, Len(old)) = old

\* C11: across every step the transcript of a session stays as it is, grows at
\* its end by one or two entries, or becomes the single greeting; once it
\* exists it never disappears and never is empty.
C11_AppendOnlyExceptClear ==
  [][\A s \in Sessions :
       /\ Has(session_state[s], "messages") =>
            /\ Has(session_state'[s], "messages")
            /\ Len(session_state'[s]["messages"]) >= 1
            /\ \/ ExtendsAtEnd(session_state[s]["messages"], session_state'[s]["messages"])
               \/ session_state'[s]["messages"] = <<Greeting>>
       /\ (~Has(session_state[s], "messages") /\ Has(session_state'[s], "messages")) =>
            session_state'[s]["messages"] = <<Greeting>>]_vars

C11_Witness ==
  \E s \in Sessions :
    /\ run[s].stage = "chat" /\ run[s].outcome = "raised"
    /\ Messages(s) = <<Greeting, UserEntry("q")>>


\* the handles in the cache whose time is not up and that runs of s created
LiveHandlesOf(s) == {e.value : e \in {x \in cache : now < x.expires /\ x.value.session = s}}

\* C12 as claimed: at no time is more than one handle that the session created
\* alive in the cache.
C12_OneLiveHandle ==
  \A s \in Sessions : Cardinality(LiveHandlesOf(s)) <= 1

\* C12 as amended: a run uses at most one handle and the cache holds at most
\* one handle for each (mode, config); the handles made for a session's earlier
\* inputs stay alive next to the one in use until their time is up.
C12_OneHandlePerInput ==
  /\ \A s \in Sessions : Cardinality(run[s].db) <= 1
  /\ \A e1 \in cache, e2 \in cache : e1.key = e2.key => e1 = e2
  /\ \A e \in cache : e.value.args = e.key

C12_Witness ==
  \E s \in Sessions :
    /\ IsReady(s) /\ run[s].stage = "chat"
    /\ Cardinality(LiveHandlesOf(s)) = 2
    /\ \E h \in LiveHandlesOf(s) : h \notin run[s].db


\* the cache still holds, for the inputs of s's coming call, an entry whose
\* time is up: no call with these inputs was made since it expired
ExpiredFor(a) == {e \in cache : e.key = a /\ now >= e.expires}

\* C13: the first call of configure_db with the inputs of an expired entry
\* runs the body again (the connection is opened anew); when the open succeeds
\* the run gets a handle created in this call, not the expired one, and the
\* cache holds it under these inputs until TTL from now.
C13_ExpiryReopens ==
  [][\A s \in Sessions :
       (/\ StepOf(s)
        /\ run'[s].stage \in {"db", "agent", "chat"}
        /\ ExpiredFor(Args(widgets'[s])) # {})
       => /\ run'[s].opened
          /\ run'[s].stage \in {"agent", "chat"} =>
               /\ \A h \in run'[s].db :
                    /\ h.created = now /\ h.session = s
                    /\ h \notin {e.value : e \in ExpiredFor(Args(widgets'[s]))}
                    /\ [key |-> Args(widgets'[s]), value |-> h, expires |-> now + TTL] \in cache'
               /\ run'[s].db # {}
               /\ \A e \in ExpiredFor(Args(widgets'[s])) : e \notin cache']_vars

C13_Witness ==
  \E s \in Sessions, t \in Sessions :
    /\ s # t
    /\ run[s].stage = "chat" /\ run[s].opened
    /\ \E h \in run[s].db, g \in run[t].db :
         /\ h.args = g.args
         /\ g.created + TTL <= h.created
         /\ h.created = now


\* a run of s that fails in configure_db ends there with no handle and no
\* agent, leaves the transcript alone, writes nothing to the cache and leaves
\* no entry that would serve its inputs
FailureLeavesNothing(s) ==
  (StepOf(s) /\ run'[s].stage = "db") =>
    /\ cache' = cache
    /\ Lookup(cache', Args(widgets'[s]), now) = {}
    /\ run'[s].db = {} /\ run'[s].agent = {}
    /\ run'[s].report.level \in {"error", "warning"}
    /\ Has(session_state'[s], "messages") = Has(session_state[s], "messages")
    /\ Has(session_state[s], "messages") =>
         session_state'[s]["messages"] = session_state[s]["messages"]

\* the step is the first run of s after one that failed in configure_db, and it
\* calls configure_db with complete inputs
RetryAfterFailure(s) ==
  /\ StepOf(s) /\ run[s].stage = "db"
  /\ run'[s].stage \in {"db", "agent", "chat"}
  /\ ~Incomplete(Args(widgets'[s]))

\* C14 as claimed: a failure of configure_db is not memoized, and the next run
\* with corrected or the same inputs opens the connection again.
C14_RetryAlwaysReopens ==
  [][\A s \in Sessions :
       /\ FailureLeavesNothing(s)
       /\ RetryAfterFailure(s) => run'[s].opened]_vars

\* C14 as amended: a failure of configure_db is not memoized; the next run
\* with corrected or the same inputs opens the connection again, unless the
\* cache still holds the handle of an earlier successful call with these
\* inputs, which is then served without opening.
C14_FailureNotMemoized ==
  [][\A s \in Sessions :
       /\ FailureLeavesNothing(s)
       /\ RetryAfterFailure(s) =>
            \/ /\ run'[s].opened
               /\ Lookup(cache, Args(widgets'[s]), now) = {}
               /\ run'[s].stage \in {"agent", "chat"} =>
                    \A h \in run'[s].db : h.created = now
            \/ /\ ~run'[s].opened
               /\ run'[s].stage \in {"agent", "chat"}
               /\ run'[s].db # {}
               /\ \A h \in run'[s].db :
                    /\ h.backend # None
                    /\ h.args = Args(widgets'[s])
                    /\ h.created <= now /\ now < h.created + TTL
                    /\ h \in {e.value : e \in cache}]_vars

C14_Witness ==
  \E s \in Sessions :
    /\ run[s].stage = "db" /\ run[s].opened
    /\ run[s].report.text = "Failed to connect to the database."
    /\ Has(session_state[s], "messages")
    /\ cache # {}


\* C15: a run in which the API key is empty or chat_ready is false (after the
\* Start button was handled) ends at the gate: it calls neither the LLM setup
\* nor configure_db, opens no connection, leaves the cache as it is and
\* neither creates nor changes the transcript.
C15_GateEveryRun ==
  [][\A s \in Sessions :
       (StepOf(s) /\ (widgets'[s].api_key = "" \/ ~session_state'[s]["chat_ready"])) =>
         /\ run'[s].stage = "gate"
         /\ ~run'[s].opened
         /\ run'[s].db = {} /\ run'[s].agent = {}
         /\ cache' = cache
         /\ run'[s].invoked_with = <<>>
         /\ Has(session_state'[s], "messages") = Has(session_state[s], "messages")
         /\ Has(session_state[s], "messages") =>
              session_state'[s]["messages"] = session_state[s]["messages"]
         /\ ClearButton \notin page'[s] /\ ChatInputBox \notin page'[s]]_vars

C15_Witness ==
  \E s \in Sessions :
    /\ IsReady(s) /\ widgets[s].api_key = ""
    /\ run[s].stage = "gate"
    /\ Has(session_state[s], "messages") /\ Len(Messages(s)) = 3
    /\ cache # {}


\* C16: the transcript comes into being only in a run that passed the gate
\* (ready, API key present), the LLM setup, configure_db (it has a handle) and
\* the agent setup (it has an agent bound to that handle); it then is the
\* single greeting and the run has not rendered the Clear button.  A session
\* without transcript whose run ends earlier stays without transcript.
C16_FirstInitialisation ==
  [][\A s \in Sessions :
       /\ (~Has(session_state[s], "messages") /\ Has(session_state'[s], "messages")) =>
            /\ run'[s].stage = "chat"
            /\ session_state'[s]["chat_ready"] /\ widgets'[s].api_key # ""
            /\ run'[s].db # {}
            /\ run'[s].agent = {[llm |-> widgets'[s].api_key, db |-> run'[s].db]}
            /\ session_state'[s]["messages"] = <<Greeting>>
            /\ ClearButton \notin page'[s]
            /\ run'[s].button # ClearButton
       /\ (~Has(session_state[s], "messages") /\ StepOf(s)
             /\ run'[s].stage \in {"gate", "llm", "db", "agent"}) =>
            ~Has(session_state'[s], "messages")]_vars

C16_Witness ==
  \E s \in Sessions :
    /\ run[s].stage = "chat"
    /\ Messages(s) = <<Greeting>>
    /\ ClearButton \notin page[s]
    /\ ChatInputBox \in page[s]

====
